---- MODULE Spec2Model ----
(***************************************************************************)
(* SmartParking Flow: the sensor simulator and its driving loop            *)
(* (src/sensores.py) and the Flask query service                           *)
(* (src/SmartParking Flow/app.py).                                         *)
(*                                                                         *)
(* Units.  Temperatures are kept in tenths of a degree (18.0 C is 180):    *)
(* the code rounds every temperature to one decimal.  A random temperature *)
(* delta is given in hundredths of a degree, so that round(.., 1) has      *)
(* something to round.  random.random() draws are given in hundredths.     *)
(* Strings that the code formats, upper-cases or sorts are sequences of    *)
(* one-character strings.                                                  *)
(***************************************************************************)
EXTENDS Integers, Sequences, FiniteSets, TLC

VARIABLES
    \* ---- ParkingSensorSimulator (src/sensores.py)
    levels,          \* self.levels
    bays_per_level,  \* self.bays_per_level
    bays,            \* self.bays: bay_id -> bay record
    ret,             \* what the last call on the simulator returned or raised
    battery_log,     \* per bay, the battery_pct of the events returned for it
    \* ---- run_simulation and KafkaPublisher (src/sensores.py)
    pc,              \* position of run_simulation
    iteration,       \* the loop counter
    run_event,       \* the local `event` of the loop body
    pub_result,      \* outcome of the last publish_event call
    send_outcome,    \* what producer.send / future.get did in that call
    printed,         \* the last line the loop printed
    exc,             \* the exception that is propagating out of the try block
    producer,        \* the publisher's producer: flush and close calls received
    \* ---- Query service (src/SmartParking Flow/app.py)
    db,              \* the module-level handle: "None" or "connected"
    store_up,        \* whether the store answers right now
    store,           \* the collection `bays`: a set of documents
    api_pc,          \* position of the request being served
    st_total,        \* get_stats: local `total`
    st_occupied,     \* get_stats: local `occupied`
    resp             \* the response the request returned

sim_vars == <<levels, bays_per_level, bays, ret, battery_log>>
run_vars == <<pc, iteration, run_event, pub_result, send_outcome, printed, exc, producer>>
api_vars == <<db, store_up, store, api_pc, st_total, st_occupied, resp>>
vars == <<sim_vars, run_vars, api_vars>>

(***************************************************************************)
(* Bounds of the model.                                                    *)
(***************************************************************************)
MaxBays == 2
MaxEvents == 2
MaxIterations == 10
MaxStoreBays == 2
MaxEventDocs == 1

(***************************************************************************)
(* Program constants.                                                      *)
(***************************************************************************)
DefaultLevels == 2
TempMin == 150
TempMax == 350
BatteryFloor == 20
BatteryDecrementPct == 10
StatusEvery == 10
EventProbabilityPct == 30
LowBatteryThreshold == 20
UrgentThreshold == 10

PARKING_ID == "PK-CADIZ-01"

(***************************************************************************)
(* Numbers and text.                                                       *)
(***************************************************************************)
Min(a, b) == IF a <= b THEN a ELSE b
Max(a, b) == IF a >= b THEN a ELSE b

\* Python's round() of the non-negative rational num/den to an integer of
\* the target unit: to nearest, ties to even.
RoundHalfEven(num, den) ==
    LET q == num \div den
        r == num % den
    IN  IF 2 * r < den THEN q
        ELSE IF 2 * r > den THEN q + 1
        ELSE IF q % 2 = 0 THEN q ELSE q + 1

\* sum(f[x] for x in S)
RECURSIVE SumFn(_, _)
SumFn(f, S) ==
    IF S = {} THEN 0
    ELSE LET x == CHOOSE y \in S : TRUE
         IN  f[x] + SumFn(f, S \ {x})

DigitChar == <<"0", "1", "2", "3", "4", "5", "6", "7", "8", "9">>

\* str(n) inside an f-string, n >= 0
RECURSIVE Decimal(_)
Decimal(n) ==
    IF n < 10 THEN <<DigitChar[n + 1]>>
    ELSE Decimal(n \div 10) \o <<DigitChar[(n % 10) + 1]>>

\* f"{n:03d}": at least three digits, zero padded
Pad3(n) ==
    LET d == Decimal(n)
    IN  IF Len(d) >= 3 THEN d
        ELSE IF Len(d) = 2 THEN <<"0">> \o d
        ELSE <<"0", "0">> \o d

\* f"L{level}"
LevelLabel(level) == <<"L">> \o Decimal(level)

\* f"L{level}-A-{bay:03d}"
BayId(level, bay) == LevelLabel(level) \o <<"-", "A", "-">> \o Pad3(bay)

(***************************************************************************)
(* ParkingSensorSimulator                                                  *)
(***************************************************************************)
\* The (level, bay) pairs the two nested loops of _initialize_bays visit.
BayGrid(lv, bpl) == (1..lv) \X (1..bpl)

\* _initialize_bays, with the three random draws of each bay given as
\* functions of the (level, bay) pair.
initialize_bays(lv, bpl, occ, temp, batt) ==
    [id \in {BayId(p[1], p[2]) : p \in BayGrid(lv, bpl)} |->
        LET p == CHOOSE q \in BayGrid(lv, bpl) : BayId(q[1], q[2]) = id
        IN  [bay_id        |-> id,
             parking_id    |-> PARKING_ID,
             level         |-> LevelLabel(p[1]),
             occupied      |-> occ[p],
             temperature_c |-> temp[p],
             battery_pct   |-> batt[p]]]

\* round(bay["temperature_c"] + random.uniform(-0.5, 0.5), 1); delta is in
\* hundredths of a degree, the result in tenths.
DriftTemperature(t, delta) == RoundHalfEven(t * 10 + delta, 10)

\* the clamp without its lower bound
ClampTemperature_NoLowerBound(t) == Min(TempMax, t)

\* max(15.0, min(35.0, t))
ClampTemperature(t) == Max(TempMin, Min(TempMax, t))

\* the battery drift with the sign of the step reversed
DriftBattery_Recharging(b, rnd) ==
    IF rnd < BatteryDecrementPct THEN Max(BatteryFloor, b + 1) ELSE b

\* if random.random() < 0.1: battery = max(20, battery - 1)
DriftBattery(b, rnd) ==
    IF rnd < BatteryDecrementPct THEN Max(BatteryFloor, b - 1) ELSE b

\* generate_event: the bay after the drift, and the event built from it
DriftedBay(bay, delta, rnd) ==
    [bay EXCEPT !.temperature_c = ClampTemperature(DriftTemperature(@, delta)),
                !.battery_pct   = DriftBattery(@, rnd)]

EventOf(bay, now) ==
    [bay_id        |-> bay.bay_id,
     parking_id    |-> bay.parking_id,
     level         |-> bay.level,
     occupied      |-> bay.occupied,
     last_event_ts |-> now,
     metrics       |-> [temperature_c |-> bay.temperature_c,
                        battery_pct   |-> bay.battery_pct],
     updated_at    |-> now]

\* generate_event on the bay map bs: the map it leaves and the event it
\* returns
GenerateEvent(bs, bay_id, delta, rnd, now) ==
    LET after == [bs EXCEPT ![bay_id] = DriftedBay(@, delta, rnd)]
    IN  [bays |-> after, event |-> EventOf(after[bay_id], now)]

\* the record of returned events, with one more
Logged(log, event) ==
    [log EXCEPT ![event.bay_id] = Append(@, event.metrics.battery_pct)]

\* the flip applied to every bay instead of the chosen one
FlipOccupied_every_bay(bs, bay_id) ==
    [id \in DOMAIN bs |-> [bs[id] EXCEPT !.occupied = ~bs[id].occupied]]

\* simulate_vehicle_movement: the bay map after flipping bay_id
FlipOccupied(bs, bay_id) ==
    [bs EXCEPT ![bay_id].occupied = ~bs[bay_id].occupied]

\* get_parking_status: lines 90-92, then the rate of line 98 in tenths of a
\* percent.  The division of line 98 raises ZeroDivisionError when total = 0.
OccupiedCount(bs) == Cardinality({id \in DOMAIN bs : bs[id].occupied})

OccupancyRate(occupied, total) == RoundHalfEven(occupied * 1000, total)

\* What a call on the simulator hands back: the operation, the exception it
\* raised if any, and its return value in the field of its type.
Return(op, raised, bay_id, event, st) ==
    [op |-> op, raised |-> raised, bay_id |-> bay_id, event |-> event, status |-> st]

NoReturn == Return("none", "none", <<>>, <<>>, <<>>)

ParkingStatus(bs) ==
    LET total    == Cardinality(DOMAIN bs)
        occupied == OccupiedCount(bs)
        free     == total - occupied
    IN  IF total = 0
        THEN Return("get_parking_status", "ZeroDivisionError", <<>>, <<>>, <<>>)
        ELSE Return("get_parking_status", "none", <<>>, <<>>,
                    <<[total_bays     |-> total,
                       occupied       |-> occupied,
                       free           |-> free,
                       occupancy_rate |-> OccupancyRate(occupied, total)]>>)

(***************************************************************************)
(* The random draws and the clock, sampled.                                *)
(***************************************************************************)
\* random.uniform(-0.5, 0.5), in hundredths of a degree: both ends, and a
\* draw that round(.., 1) rounds away
Deltas == {-50, 4, 50}

\* random.random() of line 64, in hundredths: either side of 0.1
BatteryDraws == {9, 10}

\* random.random() of line 183, in hundredths: either side of 0.3
MovementDraws == {29, 30}

\* datetime.utcnow().strftime("%Y-%m-%dT%H:%M:%SZ")
Clock == {"2025-10-18T10:00:00Z"}

\* (temperature_c, battery_pct) of a bay right after construction: the ends
\* of round(uniform(18.0, 28.0), 1) and of randint(60, 100)
ConstructionReadings == {<<180, 60>>, <<280, 100>>}

\* readings a bay has after a long run of generate_event calls: at the
\* temperature clamps and at the battery floor
DriftedReadings == {<<150, 20>>, <<350, 21>>}

\* the (levels, bays_per_level) arguments that build at most MaxBays bays
Layouts == {l \in (0..MaxBays) \X (0..MaxBays) : l[1] * l[2] <= MaxBays}

SimulatorWith(lv, bpl, occ, reading) ==
    /\ levels = lv
    /\ bays_per_level = bpl
    /\ bays = initialize_bays(lv, bpl,
                              [p \in BayGrid(lv, bpl) |-> occ],
                              [p \in BayGrid(lv, bpl) |-> reading[1]],
                              [p \in BayGrid(lv, bpl) |-> reading[2]])
    /\ ret = NoReturn
    /\ battery_log = [id \in DOMAIN bays |-> <<>>]

RunIdle ==
    /\ pc = "off"
    /\ iteration = 0
    /\ run_event = <<>>
    /\ pub_result = "none"
    /\ send_outcome = "none"
    /\ printed = "none"
    /\ exc = "none"
    /\ producer = [flush_calls |-> 0, close_calls |-> 0]

ApiIdle ==
    /\ db = "None"
    /\ store_up = FALSE
    /\ store = {}
    /\ api_pc = "off"
    /\ st_total = 0
    /\ st_occupied = 0
    /\ resp = <<>>

(***************************************************************************)
(* The simulator on its own: any caller, any order of calls.               *)
(***************************************************************************)
\* ParkingSensorSimulator(parking_id, levels, bays_per_level), observed
\* right after construction or after a run that drifted the readings.
InitSim ==
    /\ \E l \in Layouts, occ \in BOOLEAN,
          reading \in ConstructionReadings \cup DriftedReadings :
            SimulatorWith(l[1], l[2], occ, reading)
    /\ RunIdle
    /\ ApiIdle

\* simulate_vehicle_movement(): random.choice of an empty list raises
\* IndexError
simulate_vehicle_movement ==
    /\ IF DOMAIN bays = {}
       THEN /\ ret' = Return("simulate_vehicle_movement", "IndexError", <<>>, <<>>, <<>>)
            /\ bays' = bays
       ELSE \E bay_id \in DOMAIN bays :
            /\ bays' = FlipOccupied(bays, bay_id)
            /\ ret' = Return("simulate_vehicle_movement", "none", bay_id, <<>>, <<>>)
    /\ UNCHANGED <<levels, bays_per_level, battery_log>>

\* generate_event(bay_id)
generate_event(bay_id, delta, rnd, now) ==
    /\ bays' = GenerateEvent(bays, bay_id, delta, rnd, now).bays
    /\ ret' = Return("generate_event", "none", <<>>,
                     <<GenerateEvent(bays, bay_id, delta, rnd, now).event>>, <<>>)
    /\ battery_log' = Logged(battery_log, GenerateEvent(bays, bay_id, delta, rnd, now).event)
    /\ UNCHANGED <<levels, bays_per_level>>

\* get_parking_status()
get_parking_status ==
    /\ ret' = ParkingStatus(bays)
    /\ UNCHANGED <<levels, bays_per_level, bays, battery_log>>

\* number of events returned so far
EventsReturned == SumFn([id \in DOMAIN battery_log |-> Len(battery_log[id])],
                        DOMAIN battery_log)

CallGenerateEvent ==
    /\ EventsReturned < MaxEvents
    /\ \E bay_id \in DOMAIN bays, delta \in Deltas, rnd \in BatteryDraws, now \in Clock :
          generate_event(bay_id, delta, rnd, now)

NextSim ==
    \/ simulate_vehicle_movement /\ UNCHANGED <<run_vars, api_vars>>
    \/ CallGenerateEvent /\ UNCHANGED <<run_vars, api_vars>>
    \/ get_parking_status /\ UNCHANGED <<run_vars, api_vars>>

SpecSim == InitSim /\ [][NextSim]_vars

(***************************************************************************)
(* Claims about the simulator                                              *)
(***************************************************************************)
\* C1: every event generate_event returns carries a temperature between
\* 15.0 and 35.0 degrees and a battery percentage between 0 and 100.
C1_EventMetricsInRange ==
    ret.op = "generate_event" =>
        /\ ret.event[1].metrics.temperature_c >= 150
        /\ ret.event[1].metrics.temperature_c <= 350
        /\ ret.event[1].metrics.battery_pct >= 0
        /\ ret.event[1].metrics.battery_pct <= 100

\* C1 witness: an event generated for a bay that sat at the lower clamp and
\* at the battery floor (a downward draw has nowhere to go).
C1_Witness ==
    /\ ret.op = "generate_event"
    /\ ret.event[1].metrics.temperature_c = 150
    /\ ret.event[1].metrics.battery_pct = 20

C3_StatusAddsUp ==
    ret.op = "get_parking_status" =>
        /\ ret.raised = "none"
        /\ Len(ret.status) = 1
        /\ ret.status[1].total_bays = levels * bays_per_level
        /\ ret.status[1].occupied = OccupiedCount(bays)
        /\ ret.status[1].occupied + ret.status[1].free = ret.status[1].total_bays

\* C9: get_parking_status() on an empty bay set returns zeros with
\* occupancy_rate 0 instead of failing; otherwise the rate is
\* round(occupied / total * 100, 1).
C9_EmptyParkingStatusIsZero ==
    ret.op = "get_parking_status" =>
        IF DOMAIN bays = {}
        THEN /\ ret.raised = "none"
             /\ ret.status = <<[total_bays |-> 0, occupied |-> 0, free |-> 0,
                                occupancy_rate |-> 0]>>
        ELSE /\ ret.raised = "none"
             /\ 2 * ret.status[1].occupancy_rate * Cardinality(DOMAIN bays)
                    >= 2000 * OccupiedCount(bays) - Cardinality(DOMAIN bays)
             /\ 2 * ret.status[1].occupancy_rate * Cardinality(DOMAIN bays)
                    <= 2000 * OccupiedCount(bays) + Cardinality(DOMAIN bays)

(***************************************************************************)
(* KafkaPublisher and run_simulation                                       *)
(***************************************************************************)
\* what self.producer.send(..) followed by future.get(timeout=10) can do:
\* the broker acknowledges; the client raises a KafkaError (send failure,
\* timeout, broker error); something raises that is no KafkaError (the
\* serializer, say); Ctrl+C arrives while the call blocks
SendOutcomes == {"ack", "KafkaError", "Exception", "KeyboardInterrupt"}

\* publish_event whose `except KafkaError` clause reports success
publish_event_returns_True_on_error(outcome) ==
    IF outcome \in {"ack", "KafkaError"} THEN "True" ELSE "raised"

\* publish_event: the try block returns True, `except KafkaError` returns
\* False, anything else leaves the method as an exception
publish_event(outcome) ==
    IF outcome = "ack" THEN "True"
    ELSE IF outcome = "KafkaError" THEN "False"
    ELSE "raised"

\* KafkaPublisher.close(): producer.flush() then producer.close()
close(p) == [flush_calls |-> p.flush_calls + 1, close_calls |-> p.close_calls + 1]

\* an exception leaving the try block without reaching the cleanup
Unwind_without_finally(e) == IF e = "KeyboardInterrupt" THEN "except" ELSE "raised"

\* where an exception raised in the try block goes: to the
\* `except KeyboardInterrupt` clause, else straight to `finally`
Unwind(e) == IF e = "KeyboardInterrupt" THEN "except" ELSE "finally"

InLoop == {"top", "publish", "stats", "sleep"}

\* run_simulation up to line 178: ParkingSensorSimulator() with its default
\* two levels (bays_per_level scaled down from 10 to fit MaxBays) and a
\* publisher are built, and the try block is entered
InitRun ==
    /\ \E occ \in BOOLEAN, reading \in ConstructionReadings :
            SimulatorWith(DefaultLevels, MaxBays \div DefaultLevels, occ, reading)
    /\ pc = "top"
    /\ iteration = 0
    /\ run_event = <<>>
    /\ pub_result = "none"
    /\ send_outcome = "none"
    /\ printed = "none"
    /\ exc = "none"
    /\ producer = [flush_calls |-> 0, close_calls |-> 0]
    /\ ApiIdle

\* lines 180-185, random.random() < event_probability: a vehicle moves and
\* the bay's event is generated
loop_movement ==
    /\ pc = "top"
    /\ iteration < MaxIterations
    /\ EventsReturned < MaxEvents
    /\ \E draw \in MovementDraws, bay_id \in DOMAIN bays, delta \in Deltas,
          rnd \in BatteryDraws, now \in Clock :
          LET g == GenerateEvent(FlipOccupied(bays, bay_id), bay_id, delta, rnd, now)
          IN  /\ draw < EventProbabilityPct
              /\ bays' = g.bays
              /\ ret' = Return("generate_event", "none", <<>>, <<g.event>>, <<>>)
              /\ battery_log' = Logged(battery_log, g.event)
              /\ run_event' = <<g.event>>
    /\ iteration' = iteration + 1
    /\ pc' = "publish"
    /\ UNCHANGED <<levels, bays_per_level, pub_result, send_outcome, printed, exc, producer>>

\* lines 180-183, the draw is not below event_probability
loop_no_movement ==
    /\ pc = "top"
    /\ iteration < MaxIterations
    /\ \E draw \in MovementDraws : ~(draw < EventProbabilityPct)
    /\ iteration' = iteration + 1
    /\ pc' = "stats"
    /\ UNCHANGED <<sim_vars, run_event, pub_result, send_outcome, printed, exc, producer>>

\* lines 188-194: publisher.publish_event(event) and the line printed for
\* its result
loop_publish ==
    /\ pc = "publish"
    /\ \E outcome \in SendOutcomes :
          /\ send_outcome' = outcome
          /\ pub_result' = publish_event(outcome)
          /\ IF pub_result' = "True"
             THEN /\ printed' = IF run_event[1].occupied THEN "ENTRADA" ELSE "SALIDA"
                  /\ pc' = "stats"
                  /\ exc' = exc
             ELSE IF pub_result' = "False"
             THEN /\ printed' = "ERROR al publicar"
                  /\ pc' = "stats"
                  /\ exc' = exc
             ELSE /\ printed' = printed
                  /\ pc' = Unwind(outcome)
                  /\ exc' = outcome
    /\ UNCHANGED <<sim_vars, iteration, run_event, producer>>

\* lines 197-202: every 10th iteration the parking status is printed
loop_stats ==
    /\ pc = "stats"
    /\ IF iteration % StatusEvery = 0
       THEN /\ ret' = ParkingStatus(bays)
            /\ printed' = "Estado del parking"
       ELSE UNCHANGED <<ret, printed>>
    /\ pc' = "sleep"
    /\ UNCHANGED <<levels, bays_per_level, bays, battery_log,
                   iteration, run_event, pub_result, send_outcome, exc, producer>>

\* line 204: time.sleep(interval) returns
loop_sleep ==
    /\ pc = "sleep"
    /\ pc' = "top"
    /\ UNCHANGED <<sim_vars, iteration, run_event, pub_result, send_outcome,
                   printed, exc, producer>>

\* Ctrl+C between two statements of the loop, or during the sleep
interrupt ==
    /\ pc \in InLoop
    /\ exc' = "KeyboardInterrupt"
    /\ pc' = Unwind("KeyboardInterrupt")
    /\ UNCHANGED <<sim_vars, iteration, run_event, pub_result, send_outcome,
                   printed, producer>>

\* lines 206-209: except KeyboardInterrupt
except_KeyboardInterrupt ==
    /\ pc = "except"
    /\ printed' = "Simulacion detenida por el usuario"
    /\ exc' = "none"
    /\ pc' = "finally"
    /\ UNCHANGED <<sim_vars, iteration, run_event, pub_result, send_outcome, producer>>

\* lines 210-216: finally; an exception that no clause caught goes on
\* propagating after it
finally ==
    /\ pc = "finally"
    /\ producer' = close(producer)
    /\ ret' = ParkingStatus(bays)
    /\ printed' = "Estadisticas finales"
    /\ pc' = IF exc = "none" THEN "done" ELSE "raised"
    /\ UNCHANGED <<levels, bays_per_level, bays, battery_log,
                   iteration, run_event, pub_result, send_outcome, exc>>

NextRun ==
    \/ loop_movement /\ UNCHANGED api_vars
    \/ loop_no_movement /\ UNCHANGED api_vars
    \/ loop_publish /\ UNCHANGED api_vars
    \/ loop_stats /\ UNCHANGED api_vars
    \/ loop_sleep /\ UNCHANGED api_vars
    \/ interrupt /\ UNCHANGED api_vars
    \/ except_KeyboardInterrupt /\ UNCHANGED api_vars
    \/ finally /\ UNCHANGED api_vars

SpecRun == InitRun /\ [][NextRun]_vars

\* C4: publisher.close() (flush, then close) is invoked exactly once on
\* every path that ends the driving loop, the interrupted one and the one
\* of an exception escaping the loop body, never while the loop runs and
\* never twice.
C4_CloseExactlyOnce ==
    /\ pc \in InLoop \cup {"except", "finally"} => producer.close_calls = 0
    /\ pc \in {"done", "raised"} =>
          /\ producer.close_calls = 1
          /\ producer.flush_calls = 1
    /\ producer.close_calls <= 1

\* C4 witness: the loop was left by an exception that is no interrupt and
\* the publisher has been closed.
C4_Witness ==
    /\ pc = "raised"
    /\ exc = "Exception"
    /\ iteration >= 1
    /\ producer.close_calls = 1

\* C5 as stated: publish_event always returns a boolean and never raises.
C5_PublishAlwaysReturnsBoolean ==
    pub_result \in {"none", "True", "False"}

\* C5 as amended: publish_event returns True on the acknowledgement and
\* False on a KafkaError, and only then does it return; a failed publish
\* (False) leaves the loop running, with the error line printed.
C5_PublishOutcome ==
    [][loop_publish =>
         /\ send_outcome' = "ack" <=> pub_result' = "True"
         /\ send_outcome' = "KafkaError" <=> pub_result' = "False"
         /\ send_outcome' \in {"Exception", "KeyboardInterrupt"} <=> pub_result' = "raised"
         /\ pub_result' = "False" =>
               /\ pc' = "stats"
               /\ printed' = "ERROR al publicar"
               /\ exc' = "none"
               /\ producer'.close_calls = 0]_vars

\* C5 witness: a publish failed with a KafkaError and the loop went on to a
\* further iteration.
C5_Witness ==
    /\ pub_result = "False"
    /\ send_outcome = "KafkaError"
    /\ pc = "top"
    /\ iteration >= 1

(***************************************************************************)
(* Query service: text helpers                                             *)
(***************************************************************************)
LowerChars == <<"a", "b", "c", "d", "e", "f", "g", "h", "i", "j", "k", "l", "m",
                "n", "o", "p", "q", "r", "s", "t", "u", "v", "w", "x", "y", "z">>
UpperChars == <<"A", "B", "C", "D", "E", "F", "G", "H", "I", "J", "K", "L", "M",
                "N", "O", "P", "Q", "R", "S", "T", "U", "V", "W", "X", "Y", "Z">>

\* str.upper()
UpperChar(c) ==
    IF \E i \in DOMAIN LowerChars : LowerChars[i] = c
    THEN UpperChars[CHOOSE i \in DOMAIN LowerChars : LowerChars[i] = c]
    ELSE c

Upper(str) == [i \in DOMAIN str |-> UpperChar(str[i])]

\* the characters of bay ids and level labels in code point order, which is
\* the order of the store's ascending string sort
CodePointOrder == <<"-">> \o DigitChar \o UpperChars \o LowerChars

Rank(c) == CHOOSE i \in DOMAIN CodePointOrder : CodePointOrder[i] = c

StrLess(a, b) ==
    \E k \in 1..(Min(Len(a), Len(b)) + 1) :
        /\ \A i \in 1..(k - 1) : a[i] = b[i]
        /\ \/ k > Len(a) /\ k <= Len(b)
           \/ k <= Len(a) /\ k <= Len(b) /\ Rank(a[k]) < Rank(b[k])

StrLeq(a, b) == a = b \/ StrLess(a, b)

\* the orders in which the documents of S can stand in a sequence
Orderings(S) ==
    {q \in [1..Cardinality(S) -> S] : \A i, j \in DOMAIN q : i # j => q[i] # q[j]}

(***************************************************************************)
(* Query service: the store                                                *)
(***************************************************************************)
\* the bay ids the ingestion path writes
StoreBayIds == {BayId(1, k) : k \in 1..MaxStoreBays}

StoreLevels == {LevelLabel(1), LevelLabel(2)}

\* battery_pct values the ingestion path writes: either side of the two
\* thresholds 10 and 20
StoredBatteries == {9, 10, 20}

StoredTemperatures == {215}

\* the `metrics` of a stored document: absent (the test document of
\* pruebas.py has none) or present
StoredMetrics ==
    {<<>>} \cup {<<[temperature_c |-> m[1], battery_pct |-> m[2]]>> :
                    m \in StoredTemperatures \X StoredBatteries}

\* the document of bay k as the store holds it, `_id` included
Document(k, level, occupied, metrics) ==
    [_id |-> k, bay_id |-> BayId(1, k), parking_id |-> PARKING_ID,
     level |-> level, occupied |-> occupied, metrics |-> metrics]

\* what a query against the store can do: it answers, or it fails with a
\* connection error when the store is unreachable, or with an execution
\* error while the store is reachable
QueryOutcomes(up) ==
    IF up THEN {"ok", "OperationFailure"} ELSE {"ServerSelectionTimeoutError"}

\* find(..., {'_id': 0, ...}): the document without its _id
Project(d) ==
    [bay_id |-> d.bay_id, parking_id |-> d.parking_id, level |-> d.level,
     occupied |-> d.occupied, metrics |-> d.metrics]

\* find(filter).sort('bay_id', 1): the matching documents in ascending
\* bay_id order
FindSortedByBayId(docs) ==
    {q \in Orderings(docs) :
        \A i, j \in DOMAIN q : i < j => StrLeq(q[i].bay_id, q[j].bay_id)}

\* {"metrics.battery_pct": {"$lt": threshold}}: a query comparison matches
\* numbers only, so a document without metrics does not match
HasBatteryBelow(d, threshold) ==
    /\ d.metrics # <<>>
    /\ d.metrics[1].battery_pct < threshold

\* .sort('metrics.battery_pct', 1): ties stand in any order
FindSortedByBattery(docs) ==
    {q \in Orderings(docs) :
        \A i, j \in DOMAIN q :
            i < j => q[i].metrics[1].battery_pct <= q[j].metrics[1].battery_pct}

\* [f(q[i]) for i in range(len(q))]
MapSeq(q, f(_)) == [i \in DOMAIN q |-> f(q[i])]

(***************************************************************************)
(* Query service: responses                                                *)
(***************************************************************************)
\* jsonify(body), code
Response(endpoint, code, body) == <<[endpoint |-> endpoint, code |-> code, body |-> body]>>

\* `if db is None:` of get_bays, get_stats, get_bays_by_level and
\* get_low_battery_bays
DatabaseNotAvailable(endpoint) ==
    Response(endpoint, 503, [error |-> "Database connection not available"])

\* `except Exception as e:` of the same four handlers
QueryException(endpoint, e) ==
    Response(endpoint, 500, [success |-> FALSE, error |-> e])

\* health_check
HealthResponse(handle, outcome, docs, total_events) ==
    IF handle = "None"
    THEN Response("health", 503, [status |-> "unhealthy", database |-> "disconnected"])
    ELSE IF outcome = "ok"
    THEN Response("health", 200,
                  [status |-> "healthy", database |-> "connected",
                   total_bays |-> Cardinality(docs), total_events |-> total_events])
    ELSE Response("health", 503, [status |-> "unhealthy", error |-> outcome])

\* the fixed field set of get_bays' projection
ProjectListed(d) == Project(d)

\* get_bays, lines 118-141
BaysResponse(found) ==
    Response("bays", 200,
             [success |-> TRUE, count |-> Len(found), data |-> MapSeq(found, ProjectListed)])

\* get_bays_by_level answering an empty level with "not found"
LevelResponse_404_when_empty(level_upper, found) ==
    IF found = <<>>
    THEN Response("level", 404, [success |-> FALSE, error |-> "not found"])
    ELSE Response("level", 200,
                  [success |-> TRUE, level |-> level_upper, count |-> Len(found),
                   data |-> MapSeq(found, Project)])

\* get_bays_by_level, lines 258-275
LevelResponse(level_upper, found) ==
    IF found = <<>>
    THEN Response("level", 200,
                  [success |-> TRUE, level |-> level_upper, count |-> 0, data |-> <<>>,
                   message |-> <<"No hay plazas en el nivel ">> \o level_upper])
    ELSE Response("level", 200,
                  [success |-> TRUE, level |-> level_upper, count |-> Len(found),
                   data |-> MapSeq(found, Project)])

\* the $group stage of get_stats for one level.  An average is the pair
\* (sum, n) of the numeric values, or <<>> (null) when there is none.  The
\* aggregation $lt compares across types, and a missing battery_pct sorts
\* below every number.
GroupOf(docs, lvl) ==
    LET g     == {d \in docs : d.level = lvl}
        withm == {d \in g : d.metrics # <<>>}
    IN  [_id               |-> lvl,
         total             |-> Cardinality(g),
         occupied          |-> Cardinality({d \in g : d.occupied}),
         free              |-> Cardinality({d \in g : ~d.occupied}),
         avg_temperature   |-> IF withm = {} THEN <<>>
                               ELSE <<[sum |-> SumFn([d \in withm |-> d.metrics[1].temperature_c], withm),
                                       n   |-> Cardinality(withm)]>>,
         avg_battery       |-> IF withm = {} THEN <<>>
                               ELSE <<[sum |-> SumFn([d \in withm |-> d.metrics[1].battery_pct], withm),
                                       n   |-> Cardinality(withm)]>>,
         low_battery_count |-> Cardinality({d \in g :
                                   d.metrics = <<>> \/ d.metrics[1].battery_pct < LowBatteryThreshold})]

\* db.bays.aggregate(pipeline): one group per level, sorted by _id
Aggregate(docs) ==
    LET groups == {GroupOf(docs, lvl) : lvl \in {d.level : d \in docs}}
    IN  CHOOSE q \in Orderings(groups) :
            \A i, j \in DOMAIN q : i < j => StrLeq(q[i]._id, q[j]._id)

\* round(avg, 1) if avg else None; scale is 1 for a value kept in tenths and
\* 10 for one kept in units
RoundedAverage(avg, scale) ==
    IF avg = <<>> \/ avg[1].sum = 0 THEN <<>>
    ELSE <<RoundHalfEven(avg[1].sum * scale, avg[1].n)>>

\* round(occupied / total * 100, 2) if total > 0 else 0, in hundredths of a
\* percent
Rate2(occupied, total) ==
    IF total > 0 THEN RoundHalfEven(occupied * 10000, total) ELSE 0

\* lines 203-212
FormatLevel(g) ==
    [level               |-> g._id,
     total               |-> g.total,
     occupied            |-> g.occupied,
     free                |-> g.free,
     occupancy_rate      |-> Rate2(g.occupied, g.total),
     avg_temperature     |-> RoundedAverage(g.avg_temperature, 1),
     avg_battery         |-> RoundedAverage(g.avg_battery, 10),
     low_battery_sensors |-> g.low_battery_count]

\* get_stats, lines 167-168 and 200-226
StatsResponse(total, occupied, by_level) ==
    Response("stats", 200,
             [success        |-> TRUE,
              total          |-> total,
              occupied       |-> occupied,
              free           |-> total - occupied,
              occupancy_rate |-> Rate2(occupied, total),
              levels         |-> MapSeq(by_level, FormatLevel)])

IsUrgent(b) == b.metrics[1].battery_pct < UrgentThreshold

\* the high-priority test with its lower bound made strict
IsHighPriority_strict(b) ==
    /\ UrgentThreshold < b.metrics[1].battery_pct
    /\ b.metrics[1].battery_pct < LowBatteryThreshold

IsHighPriority(b) ==
    /\ UrgentThreshold <= b.metrics[1].battery_pct
    /\ b.metrics[1].battery_pct < LowBatteryThreshold

\* get_low_battery_bays, lines 304-318
LowBatteryResponse(found) ==
    Response("low_battery", 200,
             [success             |-> TRUE,
              total_count         |-> Len(found),
              urgent_count        |-> Len(SelectSeq(found, IsUrgent)),
              high_priority_count |-> Len(SelectSeq(found, IsHighPriority)),
              urgent              |-> SelectSeq(found, IsUrgent),
              high_priority       |-> SelectSeq(found, IsHighPriority),
              threshold           |-> LowBatteryThreshold])

(***************************************************************************)
(* Query service: startup, the store's environment, the handlers           *)
(***************************************************************************)
\* lines 38-56: the ping at import time decides the module-level handle
InitApi ==
    /\ SimulatorWith(0, 0, FALSE, <<180, 60>>)
    /\ RunIdle
    /\ store_up \in BOOLEAN
    /\ db = IF store_up THEN "connected" ELSE "None"
    /\ store = {}
    /\ api_pc = "idle"
    /\ st_total = 0
    /\ st_occupied = 0
    /\ resp = <<>>

\* a response stands in `resp` in the state in which its handler returns
\* it; the environment moves before, between the queries of a request, and
\* after the response is delivered
EnvironmentMayMove == api_pc # "responded"

\* the ingestion path merges an event into the one document of its bay
ingest ==
    /\ EnvironmentMayMove
    /\ store_up
    /\ \E k \in 1..MaxStoreBays, level \in StoreLevels, occupied \in BOOLEAN,
          metrics \in StoredMetrics :
          store' = {d \in store : d.bay_id # BayId(1, k)}
                      \cup {Document(k, level, occupied, metrics)}
    /\ UNCHANGED <<db, store_up, api_pc, st_total, st_occupied, resp>>

\* the store becomes unreachable, or reachable again
store_down ==
    /\ EnvironmentMayMove
    /\ store_up
    /\ store_up' = FALSE
    /\ UNCHANGED <<db, store, api_pc, st_total, st_occupied, resp>>

store_back ==
    /\ EnvironmentMayMove
    /\ ~store_up
    /\ store_up' = TRUE
    /\ UNCHANGED <<db, store, api_pc, st_total, st_occupied, resp>>

\* the client has the response
deliver ==
    /\ api_pc = "responded"
    /\ api_pc' = "idle"
    /\ resp' = <<>>
    /\ UNCHANGED <<db, store_up, store, st_total, st_occupied>>

\* GET /api/health
health_check ==
    /\ api_pc = "idle"
    /\ \E outcome \in QueryOutcomes(store_up), total_events \in 0..MaxEventDocs :
          resp' = HealthResponse(db, outcome, store, total_events)
    /\ api_pc' = "responded"
    /\ UNCHANGED <<db, store_up, store, st_total, st_occupied>>

\* GET /api/bays
get_bays ==
    /\ api_pc = "idle"
    /\ IF db = "None"
       THEN resp' = DatabaseNotAvailable("bays")
       ELSE \E outcome \in QueryOutcomes(store_up) :
              IF outcome = "ok"
              THEN \E found \in FindSortedByBayId(store) : resp' = BaysResponse(found)
              ELSE resp' = QueryException("bays", outcome)
    /\ api_pc' = "responded"
    /\ UNCHANGED <<db, store_up, store, st_total, st_occupied>>

\* GET /api/stats, lines 159-165: the handle test and count_documents({})
get_stats_count_total ==
    /\ api_pc = "idle"
    /\ IF db = "None"
       THEN /\ resp' = DatabaseNotAvailable("stats")
            /\ api_pc' = "responded"
            /\ UNCHANGED <<st_total, st_occupied>>
       ELSE \E outcome \in QueryOutcomes(store_up) :
              IF outcome = "ok"
              THEN /\ st_total' = Cardinality(store)
                   /\ st_occupied' = 0
                   /\ api_pc' = "stats_occupied"
                   /\ resp' = resp
              ELSE /\ resp' = QueryException("stats", outcome)
                   /\ api_pc' = "responded"
                   /\ UNCHANGED <<st_total, st_occupied>>
    /\ UNCHANGED <<db, store_up, store>>

\* line 166: count_documents({"occupied": True})
get_stats_count_occupied ==
    /\ api_pc = "stats_occupied"
    /\ \E outcome \in QueryOutcomes(store_up) :
          IF outcome = "ok"
          THEN /\ st_occupied' = Cardinality({d \in store : d.occupied})
               /\ api_pc' = "stats_aggregate"
               /\ UNCHANGED <<st_total, resp>>
          ELSE /\ resp' = QueryException("stats", outcome)
               /\ api_pc' = "responded"
               /\ st_total' = 0
               /\ st_occupied' = 0
    /\ UNCHANGED <<db, store_up, store>>

\* lines 198-226: the aggregation and the response
get_stats_aggregate ==
    /\ api_pc = "stats_aggregate"
    /\ \E outcome \in QueryOutcomes(store_up) :
          IF outcome = "ok"
          THEN resp' = StatsResponse(st_total, st_occupied, Aggregate(store))
          ELSE resp' = QueryException("stats", outcome)
    /\ api_pc' = "responded"
    /\ st_total' = 0
    /\ st_occupied' = 0
    /\ UNCHANGED <<db, store_up, store>>

\* the <level> values requested
LevelParams == {<<"l", "1">>, <<"L", "2">>, <<"l", "3">>}

\* GET /api/bays/level/<level>
get_bays_by_level ==
    /\ api_pc = "idle"
    /\ \E level \in LevelParams :
          IF db = "None"
          THEN resp' = DatabaseNotAvailable("level")
          ELSE \E outcome \in QueryOutcomes(store_up) :
                 IF outcome = "ok"
                 THEN \E found \in FindSortedByBayId({d \in store : d.level = Upper(level)}) :
                         resp' = LevelResponse(Upper(level), found)
                 ELSE resp' = QueryException("level", outcome)
    /\ api_pc' = "responded"
    /\ UNCHANGED <<db, store_up, store, st_total, st_occupied>>

\* GET /api/maintenance/low-battery
get_low_battery_bays ==
    /\ api_pc = "idle"
    /\ IF db = "None"
       THEN resp' = DatabaseNotAvailable("low_battery")
       ELSE \E outcome \in QueryOutcomes(store_up) :
              IF outcome = "ok"
              THEN \E found \in FindSortedByBattery(
                            {d \in store : HasBatteryBelow(d, LowBatteryThreshold)}) :
                      resp' = LowBatteryResponse(MapSeq(found, Project))
              ELSE resp' = QueryException("low_battery", outcome)
    /\ api_pc' = "responded"
    /\ UNCHANGED <<db, store_up, store, st_total, st_occupied>>

NextApi ==
    \/ ingest /\ UNCHANGED <<sim_vars, run_vars>>
    \/ store_down /\ UNCHANGED <<sim_vars, run_vars>>
    \/ store_back /\ UNCHANGED <<sim_vars, run_vars>>
    \/ deliver /\ UNCHANGED <<sim_vars, run_vars>>
    \/ health_check /\ UNCHANGED <<sim_vars, run_vars>>
    \/ get_bays /\ UNCHANGED <<sim_vars, run_vars>>
    \/ get_stats_count_total /\ UNCHANGED <<sim_vars, run_vars>>
    \/ get_stats_count_occupied /\ UNCHANGED <<sim_vars, run_vars>>
    \/ get_stats_aggregate /\ UNCHANGED <<sim_vars, run_vars>>
    \/ get_bays_by_level /\ UNCHANGED <<sim_vars, run_vars>>
    \/ get_low_battery_bays /\ UNCHANGED <<sim_vars, run_vars>>

SpecApi == InitApi /\ [][NextApi]_vars

(***************************************************************************)
(* Claims about the query service                                          *)
(***************************************************************************)
Answered(endpoint, code) ==
    /\ resp # <<>>
    /\ resp[1].endpoint = endpoint
    /\ resp[1].code = code

\* C6: every successful aggregate-stats response has the level totals
\* summing to the top-level total, free = total - occupied, and
\* occupancy_rate = occupied / total * 100 rounded to two decimals (0 when
\* total is 0), also while the ingestion path writes between its queries.
C6_StatsConsistent ==
    Answered("stats", 200) =>
        LET b == resp[1].body
        IN  /\ SumFn([i \in DOMAIN b.levels |-> b.levels[i].total], DOMAIN b.levels) = b.total
            /\ b.free = b.total - b.occupied
            /\ IF b.total = 0
               THEN b.occupancy_rate = 0
               ELSE /\ 2 * b.occupancy_rate * b.total >= 20000 * b.occupied - b.total
                    /\ 2 * b.occupancy_rate * b.total <= 20000 * b.occupied + b.total

BatteryOf(b) == b.metrics[1].battery_pct

C8_UnreachableStoreIs503 ==
    resp # <<>> =>
        /\ ~store_up => resp[1].code = 503
        /\ (~store_up /\ resp[1].endpoint = "health") => resp[1].body.status = "unhealthy"
        /\ resp[1].code = 500 => (store_up /\ resp[1].body.error = "OperationFailure")

\* C10: with a reachable store, absence of matching data is never an error:
\* the only non-200 answer is that of a query that failed to execute, and
\* a 200 answer over no matching data is the empty result (by-level:
\* count 0 and data []; list-all: count 0; stats: total 0, occupancy_rate 0,
\* levels []; low-battery: all counts 0).
C10_EmptyIsNotAnError ==
    (resp # <<>> /\ db = "connected" /\ store_up) =>
        LET r == resp[1]
            b == resp[1].body
        IN  /\ r.code # 200 => (r.code \in {500, 503} /\ b.error = "OperationFailure")
            /\ (r.code # 200 /\ r.endpoint # "health") => r.code = 500
            /\ (r.code = 200 /\ r.endpoint = "level"
                  /\ ~\E d \in store : d.level = b.level) =>
                    (b.success /\ b.count = 0 /\ b.data = <<>>)
            /\ (r.code = 200 /\ r.endpoint = "bays" /\ store = {}) =>
                    (b.success /\ b.count = 0 /\ b.data = <<>>)
            /\ (r.code = 200 /\ r.endpoint = "stats" /\ store = {}) =>
                    (b.success /\ b.total = 0 /\ b.occupancy_rate = 0 /\ b.levels = <<>>)
            /\ (r.code = 200 /\ r.endpoint = "low_battery"
                  /\ ~\E d \in store : HasBatteryBelow(d, 20)) =>
                    (b.success /\ b.total_count = 0 /\ b.urgent_count = 0
                       /\ b.high_priority_count = 0)
            /\ (r.code = 200 /\ r.endpoint = "health" /\ store = {}) => b.total_bays = 0

\* C10 witness: a level without bays is asked for while the store holds
\* bays of another level, and the answer is 200 with nothing in it.
C10_Witness ==
    /\ Answered("level", 200)
    /\ store # {}
    /\ store_up
    /\ resp[1].body.count = 0
    /\ resp[1].body.data = <<>>

(***************************************************************************)
(* Frame of the simulator's operations                                     *)
(***************************************************************************)
\* everything of a bay but its occupied flag
SameReadings(a, b) ==
    /\ a.bay_id = b.bay_id
    /\ a.parking_id = b.parking_id
    /\ a.level = b.level
    /\ a.temperature_c = b.temperature_c
    /\ a.battery_pct = b.battery_pct

\* a simulate_vehicle_movement step that returned a bay_id flipped that
\* bay's occupied flag and nothing else
MovementFlipsReturnedBay ==
    /\ ret'.raised = "none"
    /\ ret'.bay_id \in DOMAIN bays
    /\ DOMAIN bays' = DOMAIN bays
    /\ \A id \in DOMAIN bays :
          /\ SameReadings(bays'[id], bays[id])
          /\ bays'[id].occupied = IF id = ret'.bay_id THEN ~bays[id].occupied
                                  ELSE bays[id].occupied

\* a generate_event step touched at most the temperature and the battery of
\* the bay of its event
EventTouchesOnlyItsReadings ==
    /\ DOMAIN bays' = DOMAIN bays
    /\ ret'.event[1].bay_id \in DOMAIN bays
    /\ \A id \in DOMAIN bays :
          /\ bays'[id].occupied = bays[id].occupied
          /\ bays'[id].bay_id = bays[id].bay_id
          /\ bays'[id].parking_id = bays[id].parking_id
          /\ bays'[id].level = bays[id].level
          /\ id # ret'.event[1].bay_id => bays'[id] = bays[id]

\* the step is a call of simulate_vehicle_movement, of generate_event
MovementStep == ret'.op = "simulate_vehicle_movement"
EventStep    == ret'.op = "generate_event"

\* some occupied flag, or the set of bay ids, differs after the step
OccupancyChanged ==
    \/ DOMAIN bays' # DOMAIN bays
    \/ \E id \in DOMAIN bays : bays'[id].occupied # bays[id].occupied

\* C11 as stated: every simulate_vehicle_movement call flips the occupied
\* flag of exactly one bay, the one whose bay_id it returns, and leaves the
\* rest alone; generate_event changes only its bay's temperature and
\* battery; occupied flags change in no other way.
C11_EveryMovementFlipsOneBay ==
    [][/\ MovementStep => MovementFlipsReturnedBay
       /\ EventStep => EventTouchesOnlyItsReadings
       /\ OccupancyChanged => MovementStep]_vars

\* C11 as amended: the same, for a simulator that has bays; on an empty bay
\* set simulate_vehicle_movement raises IndexError and changes nothing.
C11_FrameEffects ==
    [][/\ MovementStep =>
             IF DOMAIN bays = {}
             THEN ret'.raised = "IndexError" /\ ret'.bay_id = <<>> /\ bays' = bays
             ELSE MovementFlipsReturnedBay
       /\ EventStep => EventTouchesOnlyItsReadings
       /\ OccupancyChanged => MovementStep
       /\ <<levels, bays_per_level>>' = <<levels, bays_per_level>>]_vars

\* C11 witness: a movement has just returned a bay of a simulator with
\* several bays, and the bays no longer share one occupied flag.
C11_Witness ==
    /\ ret.op = "simulate_vehicle_movement"
    /\ ret.raised = "none"
    /\ bays[ret.bay_id].occupied
    /\ \E id \in DOMAIN bays : id # ret.bay_id /\ ~bays[id].occupied
    /\ \E id \in DOMAIN battery_log : battery_log[id] # <<>>

====
